---- MODULE Spec2Model ----
(***************************************************************************)
(* Round settlement state machine of RUMBLE.                               *)
(*                                                                         *)
(* The repository holds two implementations of the same round:             *)
(*   - the backend GameService (TypeScript, rows in three repositories,    *)
(*     every await a point where the handler can fail and leave the rows   *)
(*     it already saved in place);                                         *)
(*   - the on-chain program `rumble` (Rust/Anchor, one GameState account,  *)
(*     an instruction that returns Err leaves the account untouched).      *)
(* The variable impl says which of the two a behaviour runs; the round's   *)
(* state has the same shape in both.  The variable build holds what the    *)
(* sources leave to the build a behaviour runs on: the primary key of the  *)
(* Player table of the service, and whether the account of the contract is *)
(* held to the space Initialize declares for it.                           *)
(***************************************************************************)
EXTENDS Integers, Sequences, FiniteSets, TLC

VARIABLES
    impl,      \* "service" (GameService) or "contract" (rumble program)
    build,     \* table: the primary key of the Player rows; sized: the account's space
    game,      \* the GameState row / account
    players,   \* the Player rows of the game / GameState.players (a Vec)
    winners,   \* the Winner rows of the game / GameState.winners with the lamports credited
    result,    \* the call that ended in the last step: its name, its error, burns and events
    calls,     \* the calls of the service in flight, each with its local variables
    clock,     \* Clock::get()?.unix_timestamp, the time the contract reads
    taken      \* the number of calls the service has started

vars == <<impl, build, game, players, winners, result, calls, clock, taken>>

(***************************************************************************)
(* Bounds of the model.                                                    *)
(***************************************************************************)
MaxPool == 2        \* deposits are explored while pool and deposit stay within it
MaxMessages == 3    \* messages the gateway takes in a behaviour of Spec
MaxPlayers == 21    \* largest round a settlement is tried on (SettleSpec)
MaxSettlePool == 45 \* largest pool a settlement is tried on (SettleSpec)
MaxPermLen == 3     \* rounds up to this size are loaded in every order
MaxRankPlayers == 11 \* largest round whose ranking is tried (RankSpec)
MaxCalls == 3       \* deposit calls in flight at once (ConcurrentSpec)
MaxClock == 2       \* latest time the cluster clock reaches (ClockSpec)

(***************************************************************************)
(* Inputs the operations are tried with.                                   *)
(***************************************************************************)
KeySeq == <<"A", "B", "C", "D", "E", "F", "G", "H", "I", "J", "K",
            "L", "M", "N", "O", "P", "Q", "R", "S", "T", "U", "V">>
AllKeys == {KeySeq[i] : i \in 1..Len(KeySeq)}
Keys == {"A", "B"}          \* player identities that deposit (playerKey / Pubkey)
Scores == {0, 1}            \* trading scores
ScoreListLens == {0, 1}     \* lengths of the score list handed to an evaluation
InFlight == {1, 2}          \* numbers of service calls in flight at once (Spec)
Depositor == "A"            \* the identity the DEPOSIT messages of Spec are sent for

\* amounts a DEPOSIT message can carry (a JSON number) / a u64 instruction argument
ServiceAmounts == {-1, 1}
ContractAmounts == {0, 1}

(***************************************************************************)
(* What the sources leave to the build.                                    *)
(*   table: the Player entity is not part of the sources.  Its primary key *)
(*     is either a generated id ("id": every created Player that is saved  *)
(*     is a new row) or the player key ("key": the Player saved for a key  *)
(*     that has a row is written over that row).                           *)
(*   sized: the game_state account is created by Initialize with           *)
(*     space = 8 + 8 + 8 + 1 + 4 + 4 + 32 bytes and no instruction resizes *)
(*     it; at the exit of an instruction the state is written back into    *)
(*     the account (Anchor, not part of the sources).  sized is TRUE when  *)
(*     the account has those bytes and the state must fit them, FALSE when *)
(*     the account is given room for the rows.                             *)
(***************************************************************************)
Builds(program) ==
    IF program = "service"
    THEN {[table |-> t, sized |-> FALSE] : t \in {"id", "key"}}
    ELSE {[table |-> "account", sized |-> z] : z \in BOOLEAN}

(***************************************************************************)
(* Error kinds.                                                            *)
(***************************************************************************)
None == "none"
NotActiveOrMissing == "Game is not active or does not exist."
GameNotFound == "Game not found."
DbError == "Database error"
AiError == "AI service error"
BurnError == "Burning failed"
EmitError == "Event listener error"

InvalidDeposit == "InvalidDeposit"
NoDeposits == "NoDeposits"
GameAlreadyActive == "GameAlreadyActive"
Overflow == "Overflow"
DivisionByZero == "DivisionByZero"
WinnerAccountNotFound == "WinnerAccountNotFound"
GameNotActive == "GameNotActive"
AccountAlreadyInUse == "AccountAlreadyInUse"
AccountNotInitialized == "AccountNotInitialized"
AccountDidNotSerialize == "AccountDidNotSerialize"
BurnFailed == "BurnFailed"

(***************************************************************************)
(* The round's records.                                                    *)
(***************************************************************************)
NoGame == [exists |-> FALSE, totalDeposits |-> 0, prizePool |-> 0, active |-> FALSE]

\* gameStateRepository.create({gameId, totalDeposits: 0, prizePool: 0, active: false})
NewGame == [exists |-> TRUE, totalDeposits |-> 0, prizePool |-> 0, active |-> FALSE]

\* playerRepository.create({key, deposit: amount, tradingScore: 0, game}) / Player {..}
NewPlayer(key, amount) == [key |-> key, deposit |-> amount, tradingScore |-> 0]

\* Player { key, deposit, trading_score: 0, last_active: Clock::get()?.unix_timestamp }
NewContractPlayer(key, amount, now) ==
    [key |-> key, deposit |-> amount, tradingScore |-> 0, last_active |-> now]

\* the rows as the program stores them: the contract's Player carries last_active; a
\* row of the service's table carries its primary key, id: the player key in a table
\* keyed by it, else the generated id (the i-th row inserted into a new table has i)
Stored(program, table, ps, now) ==
    IF program = "contract"
    THEN [i \in 1..Len(ps) |->
             [key |-> ps[i].key, deposit |-> ps[i].deposit,
              tradingScore |-> ps[i].tradingScore, last_active |-> now]]
    ELSE [i \in 1..Len(ps) |->
             [id |-> IF table = "key" THEN ps[i].key ELSE i, key |-> ps[i].key,
              deposit |-> ps[i].deposit, tradingScore |-> ps[i].tradingScore]]

\* key, deposit and trading score of the rows (the columns both programs have)
Rows(ps) ==
    [i \in 1..Len(ps) |->
        [key |-> ps[i].key, deposit |-> ps[i].deposit, tradingScore |-> ps[i].tradingScore]]

\* what a call that ended has done: the error it threw (None when it returned), the
\* amounts it burned, the events it emitted and the winner rows it wrote
Result(op, err, burned, events) ==
    [op |-> op, err |-> err, burned |-> burned, events |-> events, credited |-> <<>>]

\* (mutant) the event goes out before the step that fails
Failed_StillEmits(op, err) == Result(op, err, <<>>, <<"emitted">>)

\* a throw or Err leaves the method before its emit, the last statement
Failed(op, err) == Result(op, err, <<>>, <<>>)

\* no call has ended in the step
NoResult == Result("none", None, <<>>, <<>>)

Init ==
    /\ impl \in {"service", "contract"}
    /\ build \in Builds(impl)
    /\ game = NoGame
    /\ players = <<>>
    /\ winners = <<>>
    /\ result = NoResult
    /\ calls = <<>>
    /\ clock = 0
    /\ taken = 0

(***************************************************************************)
(* Helpers over the player rows.                                           *)
(***************************************************************************)
\* players.find(p => p.key === k) / iter_mut().find(|p| p.key == k): first index or 0
FindPlayer(ps, k) ==
    IF \E i \in 1..Len(ps) : ps[i].key = k
    THEN CHOOSE i \in 1..Len(ps) : ps[i].key = k /\ \A j \in 1..(i - 1) : ps[j].key # k
    ELSE 0

RECURSIVE SumDeposits(_)
SumDeposits(ps) == IF ps = <<>> THEN 0 ELSE Head(ps).deposit + SumDeposits(Tail(ps))


(***************************************************************************)
(* Pure functions of the settlement arithmetic (same in both programs).    *)
(***************************************************************************)
\* (mutant) the winner count rounded down instead of up
NumWinners_Floor(n) == n \div 10

\* Math.ceil(players.length * 0.10) / ((total_players as f64) * 0.10).ceil():
\* the double product n * 0.1 never crosses an integer, so this is ceil(n / 10)
NumWinners(n) == (n + 9) \div 10

\* Math.floor(prizePool * 90 / 100) / prize_pool * 90 / 100
PrizeForWinners(pool) == (pool * 90) \div 100

\* (mutant) the burn is what the winners' share leaves of the pool
BuybackAmount_Remainder(pool) == pool - PrizeForWinners(pool)

\* Math.floor(prizePool * 10 / 100) / prize_pool * 10 / 100
BuybackAmount(pool) == (pool * 10) \div 100

\* Math.floor(prizeForWinners / numWinners): a division by 0 gives Infinity or NaN
NotANumber == "NaN"

\* (mutant) the share of a winner rounded up instead of down
PrizePerWinner_Ceil(prizeForWinners, numWinners) ==
    IF numWinners = 0 THEN NotANumber ELSE (prizeForWinners + numWinners - 1) \div numWinners

PrizePerWinner(prizeForWinners, numWinners) ==
    IF numWinners = 0 THEN NotANumber ELSE prizeForWinners \div numWinners

\* insert row p into a list sorted by descending tradingScore, after the rows of
\* equal score (Array.prototype.sort and slice::sort_by are stable)
RECURSIVE InsertByScore(_, _)
InsertByScore(p, sorted) ==
    IF sorted = <<>> THEN <<p>>
    ELSE IF Head(sorted).tradingScore >= p.tradingScore
         THEN <<Head(sorted)>> \o InsertByScore(p, Tail(sorted))
         ELSE <<p>> \o sorted

\* players.sort((a, b) => b.tradingScore - a.tradingScore)
\* sorted_players.sort_by(|a, b| b.trading_score.cmp(&a.trading_score))
RECURSIVE SortByScore(_)
SortByScore(ps) ==
    IF ps = <<>> THEN <<>>
    ELSE LET n == Len(ps)
         IN InsertByScore(ps[n], SortByScore(SubSeq(ps, 1, n - 1)))

\* (mutant) the winners are taken from the end of the sorted list
TopPlayers_Tail(ps) ==
    SubSeq(SortByScore(ps), Len(ps) - NumWinners(Len(ps)) + 1, Len(ps))

\* sortedPlayers.slice(0, numWinners) / into_iter().take(num_winners)
TopPlayers(ps) == SubSeq(SortByScore(ps), 1, NumWinners(Len(ps)))

\* the winner rows written for the first k of the top players
WinnerRows(top, k, prize) == [i \in 1..k |-> [playerKey |-> top[i].key, prize |-> prize]]

\* the orders in which the relation game.players (n rows, no ORDER BY) can be loaded:
\* every order of a small round, the stored order and its reverse of a large one
Perms(n) == {f \in [1..n -> 1..n] : \A i, j \in 1..n : f[i] = f[j] => i = j}
LoadOrders(n) ==
    IF n <= MaxPermLen THEN Perms(n)
    ELSE {[i \in 1..n |-> i], [i \in 1..n |-> n + 1 - i]}
Loaded(ps, order) == [i \in 1..Len(ps) |-> ps[order[i]]]

\* the winner accounts a caller of select_winners can pass
AccountSets == {AllKeys, {}} \cup {AllKeys \ {k} : k \in Keys}

\* the score lists an evaluation can be handed
ScoreEntries == [playerKey : Keys, score : Scores]
ScoreLists == UNION {[1..n -> ScoreEntries] : n \in ScoreListLens}

(***************************************************************************)
(* GameService (backend).  The gateway starts a handler for every message  *)
(* (handleDeposit, handleEvaluateTrading, handleSelectWinners and          *)
(* handleResetGame await the service method and nothing makes a message    *)
(* wait for the handler of an earlier one), and a service method yields at *)
(* each of its awaits; between two awaits it runs without interruption.    *)
(* A call in flight is a record of calls: op and pc say which await it is  *)
(* at, the other fields are its local variables: the GameState it loaded   *)
(* (game), the Player it loaded or created (player; id is the primary key  *)
(* of the row it was loaded from, 0 for a created one that gets its id     *)
(* when it is saved), the Player objects it holds (rows:                   *)
(* the players loaded by an evaluation, then the ones it still has to      *)
(* save), the list the AI service gave it (scores), the top players of a   *)
(* settlement (top), its amounts (pool, prize, buyback) and the number of  *)
(* winner rows it has saved (saved).  An action                            *)
(* is the step a call takes when the promise it awaits settles, up to its  *)
(* next await; a step with a fault parameter can throw there.  A call that *)
(* returns or throws leaves calls; keep says that its record stays, for    *)
(* the properties that speak of the calls that have completed.             *)
(***************************************************************************)
NoPlayer == [id |-> 0, deposit |-> 0, tradingScore |-> 0]

Call(op, pc, playerKey, amount, keep) ==
    [op |-> op, pc |-> pc, playerKey |-> playerKey, amount |-> amount, keep |-> keep,
     game |-> NoGame, player |-> NoPlayer, rows |-> <<>>, scores |-> <<>>, top |-> <<>>,
     pool |-> 0, prize |-> 0, buyback |-> 0, saved |-> 0]

\* the calls still running
Running(cs) == {c \in 1..Len(cs) : cs[c].pc \notin {"done", "failed"}}

\* the call returns (pc "done") or throws (pc "failed")
Retire(cs, c, pc) ==
    IF cs[c].keep
    THEN [cs EXCEPT ![c] = Call(cs[c].op, pc, cs[c].playerKey, cs[c].amount, TRUE)]
    ELSE SubSeq(cs, 1, c - 1) \o SubSeq(cs, c + 1, Len(cs))

\* gameStateRepository.save(newGame): the row of this gameId becomes newGame
initializeGame(fail) ==
    /\ impl = "service"
    /\ fail \in {"none", "gameSave"}
    /\ IF fail = "gameSave"
       THEN /\ result' = Failed("initialize", DbError)
            /\ UNCHANGED <<game>>
       ELSE /\ game' = NewGame
            /\ result' = Result("initialize", None, <<>>, <<>>)
    /\ UNCHANGED <<impl, build, calls, clock, taken, players, winners>>

\* if (!game || game.active) throw: deposit and selectWinners refuse a missing or
\* settled game
RejectsActive(g) == ~g.exists \/ g.active

\* if (!game || !game.active) throw: resetGame refuses a missing or unsettled game
RejectsInactive(g) == ~g.exists \/ ~g.active

\* the sum of the amounts of the deposit calls in cs made for an identity of ks
RECURSIVE SumAmounts(_, _)
SumAmounts(cs, ks) ==
    IF cs = <<>> THEN 0
    ELSE (IF Head(cs).op = "deposit" /\ Head(cs).playerKey \in ks THEN Head(cs).amount ELSE 0)
             + SumAmounts(Tail(cs), ks)

\* the gateway takes a message and starts its handler: the model takes MaxMessages
\* messages, and a message while fewer than two calls are in flight
Started ==
    /\ taken < MaxMessages
    /\ Cardinality(Running(calls)) + 1 \in InFlight
    /\ taken' = taken + 1

\* handleDeposit: a DEPOSIT message arrives and deposit(playerKey, amount, gameId)
\* runs to its first await
handleDeposit(playerKey, amount) ==
    /\ impl = "service"
    /\ Started
    /\ calls' = Append(calls, Call("deposit", "findGame", playerKey, amount, FALSE))
    /\ result' = NoResult
    /\ UNCHANGED <<impl, build, clock, game, players, winners>>

\* const game = await gameStateRepository.findOne(..); if (!game || game.active) throw
deposit_findGame(c) ==
    /\ calls[c].op = "deposit" /\ calls[c].pc = "findGame"
    /\ IF RejectsActive(game)
       THEN /\ calls' = Retire(calls, c, "failed")
            /\ result' = Failed("deposit", NotActiveOrMissing)
       ELSE /\ calls' = [calls EXCEPT ![c].pc = "findPlayer", ![c].game = game]
            /\ result' = NoResult
    /\ UNCHANGED <<impl, build, clock, taken, game, players, winners>>

\* the rows playerRepository.findOne({ where: { key, game } }) can return: a row of
\* the key, whichever the database finds first (no ORDER BY), or none (0)
FoundRows(ps, k) ==
    LET found == {i \in 1..Len(ps) : ps[i].key = k}
    IN IF found = {} THEN {0} ELSE found

\* let player = await playerRepository.findOne(..);       (i: the row it returned)
\* if (player) player.deposit += amount; else player = playerRepository.create(..)
DepositPlayer(ps, i, table, playerKey, amount) ==
    IF i # 0
    THEN [id |-> ps[i].id, deposit |-> ps[i].deposit + amount,
          tradingScore |-> ps[i].tradingScore]
    ELSE [id |-> IF table = "key" THEN playerKey ELSE 0, deposit |-> amount,
          tradingScore |-> 0]

deposit_findPlayer(c, i) ==
    /\ calls[c].op = "deposit" /\ calls[c].pc = "findPlayer"
    /\ i \in FoundRows(players, calls[c].playerKey)
    /\ calls' = [calls EXCEPT ![c].pc = "savePlayer",
                              ![c].player = DepositPlayer(players, i, build.table,
                                                          calls[c].playerKey,
                                                          calls[c].amount)]
    /\ result' = NoResult
    /\ UNCHANGED <<impl, build, clock, taken, game, players, winners>>

\* the ids of the rows of the table and of the Player objects the calls hold (a
\* table with generated ids)
HeldIds(ps, cs) ==
    {ps[i].id : i \in 1..Len(ps)}
        \cup {cs[c].player.id : c \in 1..Len(cs)}
        \cup UNION {{cs[c].rows[j].id : j \in 1..Len(cs[c].rows)} : c \in 1..Len(cs)}

\* the id an inserted row gets: one that no row has and no object was loaded with
NextId(ps, cs) ==
    LET used == HeldIds(ps, cs) \cup {0}
    IN 1 + CHOOSE m \in used : \A k \in used : k <= m

\* playerRepository.save(player): the object is written to the row that has its
\* primary key, and inserted as a new row when no row has it (a created Player with
\* a generated id, a Player whose row a reset has deleted since, the first Player
\* of a key).  Only a table keyed by the player key keeps one row per key: nothing
\* in the code does.
SavePlayer(ps, row) ==
    IF \E i \in 1..Len(ps) : ps[i].id = row.id
    THEN [i \in 1..Len(ps) |-> IF ps[i].id = row.id THEN row ELSE ps[i]]
    ELSE Append(ps, row)

\* (mutant) prizePool is set to the amount of the deposit, not to the new total
DepositGame_PoolIsAmount(g, amount) ==
    [g EXCEPT !.totalDeposits = @ + amount, !.prizePool = amount]

\* game.totalDeposits += amount; game.prizePool = game.totalDeposits
DepositGame(g, amount) ==
    [g EXCEPT !.totalDeposits = @ + amount, !.prizePool = g.totalDeposits + amount]

\* await playerRepository.save(player);
\* game.totalDeposits += amount; game.prizePool = game.totalDeposits
deposit_savePlayer(c, throws) ==
    /\ calls[c].op = "deposit" /\ calls[c].pc = "savePlayer"
    /\ UNCHANGED <<impl, build, clock, taken, game, winners>>
    /\ LET call == calls[c]
           row == [id |-> IF build.table = "id" /\ call.player.id = 0
                          THEN NextId(players, calls)
                          ELSE call.player.id,
                   key |-> call.playerKey, deposit |-> call.player.deposit,
                   tradingScore |-> call.player.tradingScore]
       IN IF throws
          THEN /\ calls' = Retire(calls, c, "failed")
               /\ result' = Failed("deposit", DbError)
               /\ UNCHANGED players
          ELSE /\ players' = SavePlayer(players, row)
               /\ calls' = [calls EXCEPT ![c].pc = "saveGame",
                                         ![c].game = DepositGame(call.game, call.amount)]
               /\ result' = NoResult

\* (mutant) a throw from the emit undoes the save of the round
deposit_saveGame_EmitRollsBack(c, fail) ==
    /\ calls[c].op = "deposit" /\ calls[c].pc = "saveGame"
    /\ fail \in {"none", "gameSave", "emit"}
    /\ UNCHANGED <<impl, build, clock, taken, players, winners>>
    /\ CASE fail = "gameSave" ->
              /\ calls' = Retire(calls, c, "failed")
              /\ result' = Failed("deposit", DbError)
              /\ UNCHANGED game
         [] fail = "emit" ->
              /\ calls' = Retire(calls, c, "failed")
              /\ result' = Failed("deposit", EmitError)
              /\ UNCHANGED game
         [] OTHER ->
              /\ game' = calls[c].game
              /\ calls' = Retire(calls, c, "done")
              /\ result' = Result("deposit", None, <<>>, <<"deposit.made">>)

\* await gameStateRepository.save(game); eventEmitter.emit('deposit.made', ..)
deposit_saveGame(c, fail) ==
    /\ calls[c].op = "deposit" /\ calls[c].pc = "saveGame"
    /\ fail \in {"none", "gameSave", "emit"}
    /\ UNCHANGED <<impl, build, clock, taken, players, winners>>
    /\ CASE fail = "gameSave" ->
              /\ calls' = Retire(calls, c, "failed")
              /\ result' = Failed("deposit", DbError)
              /\ UNCHANGED game
         [] fail = "emit" ->
              /\ game' = calls[c].game
              /\ calls' = Retire(calls, c, "failed")
              /\ result' = Failed("deposit", EmitError)
         [] OTHER ->
              /\ game' = calls[c].game
              /\ calls' = Retire(calls, c, "done")
              /\ result' = Result("deposit", None, <<>>, <<"deposit.made">>)

\* handleEvaluateTrading: an EVALUATE_TRADING message arrives and
\* evaluateTradingActivities(gameId) runs to its first await
handleEvaluateTrading ==
    /\ impl = "service"
    /\ Started
    /\ calls' = Append(calls, Call("evaluate", "evalFind", "", 0, FALSE))
    /\ result' = NoResult
    /\ UNCHANGED <<impl, build, clock, game, players, winners>>

\* const game = await findOne(.., relations: ['players']); if (!game) throw;
\* const players = game.players; the call to the AI service is made;
\* order: the order in which the relation game.players is loaded
evaluate_findGame(c, order) ==
    /\ calls[c].op = "evaluate" /\ calls[c].pc = "evalFind"
    /\ order \in LoadOrders(Len(players))
    /\ IF ~game.exists
       THEN /\ calls' = Retire(calls, c, "failed")
            /\ result' = Failed("evaluate", GameNotFound)
       ELSE /\ calls' = [calls EXCEPT ![c].pc = "evalScores",
                                      ![c].rows = Loaded(players, order)]
            /\ result' = NoResult
    /\ UNCHANGED <<impl, build, clock, taken, game, players, winners>>

\* (mutant) an id without a record gets a record
RECURSIVE ScoredPlayers_Insert(_, _)
ScoredPlayers_Insert(rows, scores) ==
    IF scores = <<>> THEN <<>>
    ELSE LET e == Head(scores)
             i == FindPlayer(rows, e.playerKey)
         IN IF i = 0
            THEN <<[id |-> IF build.table = "key" THEN e.playerKey ELSE 0,
                      key |-> e.playerKey, deposit |-> 0, tradingScore |-> e.score]>>
                     \o ScoredPlayers_Insert(rows, Tail(scores))
            ELSE <<[rows[i] EXCEPT !.tradingScore = e.score]>>
                     \o ScoredPlayers_Insert([rows EXCEPT ![i].tradingScore = e.score],
                                            Tail(scores))

\* (mutant) the score is added to the score the player has
RECURSIVE ScoredPlayers_Accumulate(_, _)
ScoredPlayers_Accumulate(rows, scores) ==
    IF scores = <<>> THEN <<>>
    ELSE LET e == Head(scores)
             i == FindPlayer(rows, e.playerKey)
         IN IF i = 0 THEN ScoredPlayers_Accumulate(rows, Tail(scores))
            ELSE <<[rows[i] EXCEPT !.tradingScore = @ + e.score]>>
                     \o ScoredPlayers_Accumulate([rows EXCEPT ![i].tradingScore = @ + e.score],
                                                Tail(scores))

\* for (const {playerKey, score} of scores) { const player = players.find(..);
\*     if (player) { player.tradingScore = score; await playerRepository.save(player) } }
\* the Player objects the loop saves, in the order of the list, each as it is when it
\* is saved: the object loaded by findOne with the score of the entry
RECURSIVE ScoredPlayers(_, _)
ScoredPlayers(rows, scores) ==
    IF scores = <<>> THEN <<>>
    ELSE LET e == Head(scores)
             i == FindPlayer(rows, e.playerKey)
         IN IF i = 0 THEN ScoredPlayers(rows, Tail(scores))
            ELSE <<[rows[i] EXCEPT !.tradingScore = e.score]>>
                     \o ScoredPlayers([rows EXCEPT ![i].tradingScore = e.score], Tail(scores))

\* the method returns after its emit, which is synchronous and can throw
Returns(c, op, event, burned, throws) ==
    /\ calls' = Retire(calls, c, IF throws THEN "failed" ELSE "done")
    /\ result' = IF throws THEN Result(op, EmitError, burned, <<>>)
                 ELSE Result(op, None, burned, <<event>>)

\* const scores = await aiService.computeScoresWithAnomalyDetection(..): the list the
\* AI service answers with; the loop runs to its first save, or to the emit when no
\* entry names a loaded player
evaluate_computeScores(c, scores, fail) ==
    /\ calls[c].op = "evaluate" /\ calls[c].pc = "evalScores"
    /\ fail \in {"none", "ai", "emit"}
    /\ UNCHANGED <<impl, build, clock, taken, game, players, winners>>
    /\ LET todo == ScoredPlayers(calls[c].rows, scores)
       IN CASE fail = "ai" ->
                 /\ calls' = Retire(calls, c, "failed")
                 /\ result' = Failed("evaluate", AiError)
            [] fail # "ai" /\ todo = <<>> ->
                 Returns(c, "evaluate", "trading.evaluated", <<>>, fail = "emit")
            [] OTHER ->
                 /\ fail = "none"
                 /\ calls' = [calls EXCEPT ![c].pc = "evalSave", ![c].rows = todo,
                                           ![c].scores = scores]
                 /\ result' = NoResult

\* await playerRepository.save(player): the object loaded at the start of the call is
\* written over the row; then the next entry, or the emit after the last
evaluate_savePlayer(c, fail) ==
    /\ calls[c].op = "evaluate" /\ calls[c].pc = "evalSave"
    /\ fail \in {"none", "playerSave", "emit"}
    /\ UNCHANGED <<impl, build, clock, taken, game, winners>>
    /\ LET todo == calls[c].rows
       IN CASE fail = "playerSave" ->
                 /\ calls' = Retire(calls, c, "failed")
                 /\ result' = Failed("evaluate", DbError)
                 /\ UNCHANGED players
            [] fail # "playerSave" /\ Len(todo) = 1 ->
                 /\ players' = SavePlayer(players, Head(todo))
                 /\ Returns(c, "evaluate", "trading.evaluated", <<>>, fail = "emit")
            [] OTHER ->
                 /\ fail = "none"
                 /\ players' = SavePlayer(players, Head(todo))
                 /\ calls' = [calls EXCEPT ![c].rows = Tail(todo)]
                 /\ result' = NoResult

\* handleSelectWinners: a SELECT_WINNERS message arrives and selectWinners(gameId) runs
\* to its first await
handleSelectWinners ==
    /\ impl = "service"
    /\ Started
    /\ calls' = Append(calls, Call("selectWinners", "settleFind", "", 0, FALSE))
    /\ result' = NoResult
    /\ UNCHANGED <<impl, build, clock, game, players, winners>>

\* const game = await findOne(.., relations: ['players']); if (!game || game.active) throw;
\* numWinners, sort, slice and the three amounts are computed without a yield;
\* order: the order in which the relation game.players is loaded
settle_findGame(c, order) ==
    /\ calls[c].op = "selectWinners" /\ calls[c].pc = "settleFind"
    /\ order \in LoadOrders(Len(players))
    /\ IF RejectsActive(game)
       THEN /\ calls' = Retire(calls, c, "failed")
            /\ result' = Failed("selectWinners", NotActiveOrMissing)
       ELSE LET loaded == Loaded(players, order)
                numWinners == NumWinners(Len(loaded))
            IN /\ calls' = [calls EXCEPT
                              ![c].pc = IF numWinners = 0 THEN "settleBurn" ELSE "settleWinner",
                              ![c].game = game,
                              ![c].top = TopPlayers(loaded),
                              ![c].pool = game.prizePool,
                              ![c].prize = PrizePerWinner(PrizeForWinners(game.prizePool),
                                                          numWinners),
                              ![c].buyback = BuybackAmount(game.prizePool)]
               /\ result' = NoResult
    /\ UNCHANGED <<impl, build, clock, taken, game, players, winners>>

\* the winner rows the call has saved
Credited(call) == WinnerRows(call.top, call.saved, call.prize)

\* await winnerRepository.save(winner), once for each top player
settle_saveWinner(c, throws) ==
    /\ calls[c].op = "selectWinners" /\ calls[c].pc = "settleWinner"
    /\ UNCHANGED <<impl, build, clock, taken, game, players>>
    /\ LET call == calls[c]
           k == call.saved + 1
       IN IF throws
          THEN /\ calls' = Retire(calls, c, "failed")
               /\ result' = [Failed("selectWinners", DbError) EXCEPT
                                !.credited = Credited(call)]
               /\ UNCHANGED winners
          ELSE /\ winners' = Append(winners, [playerKey |-> call.top[k].key,
                                              prize |-> call.prize])
               /\ calls' = [calls EXCEPT ![c].saved = k,
                                         ![c].pc = IF k = Len(call.top) THEN "settleBurn"
                                                   ELSE "settleWinner"]
               /\ result' = NoResult

\* await this.buybackAndBurnTokens(buybackAmount), which stands for the call into the
\* token program and can reject; game.active = true; game.prizePool = 0
settle_burn(c, throws) ==
    /\ calls[c].op = "selectWinners" /\ calls[c].pc = "settleBurn"
    /\ UNCHANGED <<impl, build, clock, taken, game, players, winners>>
    /\ IF throws
       THEN /\ calls' = Retire(calls, c, "failed")
            /\ result' = [Failed("selectWinners", BurnError) EXCEPT
                             !.credited = Credited(calls[c])]
       ELSE /\ calls' = [calls EXCEPT ![c].pc = "settleSave",
                                      ![c].game = [@ EXCEPT !.active = TRUE, !.prizePool = 0]]
            /\ result' = NoResult

\* await gameStateRepository.save(game); eventEmitter.emit('winners.selected', ..)
settle_saveGame(c, fail) ==
    /\ calls[c].op = "selectWinners" /\ calls[c].pc = "settleSave"
    /\ fail \in {"none", "gameSave", "emit"}
    /\ UNCHANGED <<impl, build, clock, taken, players, winners>>
    /\ calls' = Retire(calls, c, IF fail = "none" THEN "done" ELSE "failed")
    /\ LET did == [Result("selectWinners", None, <<calls[c].buyback>>, <<>>) EXCEPT
                      !.credited = Credited(calls[c])]
       IN CASE fail = "gameSave" ->
                 /\ result' = [did EXCEPT !.err = DbError]
                 /\ UNCHANGED game
            [] fail = "emit" ->
                 /\ game' = calls[c].game
                 /\ result' = [did EXCEPT !.err = EmitError]
            [] OTHER ->
                 /\ game' = calls[c].game
                 /\ result' = [did EXCEPT !.events = <<"winners.selected">>]

\* buybackAndBurnTokens is a public method of the service: a caller can burn an amount
\* with no settlement
buybackAndBurnTokens(amount) ==
    /\ impl = "service"
    /\ result' = Result("burn", None, <<amount>>, <<>>)
    /\ UNCHANGED <<impl, build, calls, clock, taken, game, players, winners>>

\* handleResetGame: a RESET_GAME message arrives and resetGame(gameId) runs to its
\* first await
handleResetGame ==
    /\ impl = "service"
    /\ Started
    /\ calls' = Append(calls, Call("reset", "resetFind", "", 0, FALSE))
    /\ result' = NoResult
    /\ UNCHANGED <<impl, build, clock, game, players, winners>>

\* const game = await findOne(.., relations: ['players', 'winners']);
\* if (!game || !game.active) throw
reset_findGame(c) ==
    /\ calls[c].op = "reset" /\ calls[c].pc = "resetFind"
    /\ IF RejectsInactive(game)
       THEN /\ calls' = Retire(calls, c, "failed")
            /\ result' = Failed("reset", NotActiveOrMissing)
       ELSE /\ calls' = [calls EXCEPT ![c].pc = "resetWinners", ![c].game = game]
            /\ result' = NoResult
    /\ UNCHANGED <<impl, build, clock, taken, game, players, winners>>

\* await winnerRepository.delete({ game: gameId })
reset_deleteWinners(c, throws) ==
    /\ calls[c].op = "reset" /\ calls[c].pc = "resetWinners"
    /\ UNCHANGED <<impl, build, clock, taken, game, players>>
    /\ IF throws
       THEN /\ calls' = Retire(calls, c, "failed")
            /\ result' = Failed("reset", DbError)
            /\ UNCHANGED winners
       ELSE /\ winners' = <<>>
            /\ calls' = [calls EXCEPT ![c].pc = "resetPlayers"]
            /\ result' = NoResult

\* game.active = false; game.totalDeposits = 0; game.prizePool = 0
ResetGameState(g) == [g EXCEPT !.active = FALSE, !.totalDeposits = 0, !.prizePool = 0]

\* await playerRepository.delete({ game: gameId }); the three assignments to game
reset_deletePlayers(c, throws) ==
    /\ calls[c].op = "reset" /\ calls[c].pc = "resetPlayers"
    /\ UNCHANGED <<impl, build, clock, taken, game, winners>>
    /\ IF throws
       THEN /\ calls' = Retire(calls, c, "failed")
            /\ result' = Failed("reset", DbError)
            /\ UNCHANGED players
       ELSE /\ players' = <<>>
            /\ calls' = [calls EXCEPT ![c].pc = "resetSave",
                                      ![c].game = ResetGameState(calls[c].game)]
            /\ result' = NoResult

\* await gameStateRepository.save(game); eventEmitter.emit('game.reset', ..)
reset_saveGame(c, fail) ==
    /\ calls[c].op = "reset" /\ calls[c].pc = "resetSave"
    /\ fail \in {"none", "gameSave", "emit"}
    /\ UNCHANGED <<impl, build, clock, taken, players, winners>>
    /\ IF fail = "gameSave"
       THEN /\ calls' = Retire(calls, c, "failed")
            /\ result' = Failed("reset", DbError)
            /\ UNCHANGED game
       ELSE /\ game' = calls[c].game
            /\ Returns(c, "reset", "game.reset", <<>>, fail = "emit")

\* the step call c takes when the promise it awaits settles
DepositSteps(c) ==
    \/ deposit_findGame(c)
    \/ \E i \in 0..Len(players) : deposit_findPlayer(c, i)
    \/ \E throws \in BOOLEAN : deposit_savePlayer(c, throws)
    \/ \E fail \in {"none", "gameSave", "emit"} : deposit_saveGame(c, fail)

EvaluateSteps(c) ==
    \/ \E order \in LoadOrders(Len(players)) : evaluate_findGame(c, order)
    \/ \E scores \in ScoreLists, fail \in {"none", "ai", "emit"} :
           evaluate_computeScores(c, scores, fail)
    \/ \E fail \in {"none", "playerSave", "emit"} : evaluate_savePlayer(c, fail)

SettleSteps(c) ==
    \/ \E order \in LoadOrders(Len(players)) : settle_findGame(c, order)
    \/ \E throws \in BOOLEAN : settle_saveWinner(c, throws)
    \/ \E throws \in BOOLEAN : settle_burn(c, throws)
    \/ \E fail \in {"none", "gameSave", "emit"} : settle_saveGame(c, fail)

ResetSteps(c) ==
    \/ reset_findGame(c)
    \/ \E throws \in BOOLEAN : reset_deleteWinners(c, throws)
    \/ \E throws \in BOOLEAN : reset_deletePlayers(c, throws)
    \/ \E fail \in {"none", "gameSave", "emit"} : reset_saveGame(c, fail)

ServiceStep(c) == DepositSteps(c) \/ EvaluateSteps(c) \/ SettleSteps(c) \/ ResetSteps(c)

(***************************************************************************)
(* The rumble program (contract).  Each action is one instruction; an      *)
(* instruction that returns Err changes nothing: the runtime discards the  *)
(* account writes and the events of a failed transaction.                  *)
(***************************************************************************)
\* #[account(init, payer = user, space = 8 + 8 + 8 + 1 + 4 + 4 + 32)]: the discriminator
\* and a GameState with empty players and winners
InitSpace == 8 + 8 + 8 + 1 + 4 + 4 + 32

\* Player { key: Pubkey, deposit: u64, trading_score: u32, last_active: i64 }, an
\* element of players and of winners (Vec<Player>)
PlayerSpace == 32 + 8 + 4 + 8

\* the bytes of the GameState with np players and nw winners
StateSpace(np, nw) == InitSpace + PlayerSpace * (np + nw)

\* #[account(mut)] game_state: the exit of the instruction writes the state back into
\* the account, which fails when the account is held to InitSpace and the state is larger
Fits(np, nw) == ~build.sized \/ StateSpace(np, nw) <= InitSpace

\* u64: n fits when n div 2^64 is 0; the wrapped value is n mod 2^64
U64Bits == 64

RECURSIVE ShiftRight(_, _)
ShiftRight(n, bits) == IF bits = 0 \/ n = 0 THEN n ELSE ShiftRight(n \div 2, bits - 1)

RECURSIVE LowBits(_, _)
LowBits(n, bits) ==
    IF bits = 0 \/ n = 0 THEN 0 ELSE (n % 2) + 2 * LowBits(n \div 2, bits - 1)

FitsU64(n) == ShiftRight(n, U64Bits) = 0

\* #[account(init, ...)] rejects a game_state account that already exists
rumble_initialize ==
    /\ impl = "contract"
    /\ IF game.exists
       THEN /\ result' = Failed("initialize", AccountAlreadyInUse)
            /\ UNCHANGED <<game>>
       ELSE /\ game' = NewGame
            /\ result' = Result("initialize", None, <<>>, <<>>)
    /\ UNCHANGED <<impl, build, calls, clock, taken, players, winners>>

\* checked_add: the sum, or None (here -1) when it passes the domain maximum
CheckedAdd(a, b) == IF FitsU64(a + b) THEN a + b ELSE -1

rumble_deposit(player, amount) ==
    /\ impl = "contract"
    /\ UNCHANGED <<impl, build, calls, clock, taken, winners>>
    /\ LET i == FindPlayer(players, player)
           newDeposit == IF i # 0 THEN CheckedAdd(players[i].deposit, amount) ELSE amount
           newTotal == CheckedAdd(game.totalDeposits, amount)
           np == IF i # 0 THEN Len(players) ELSE Len(players) + 1
           err == CASE ~game.exists -> AccountNotInitialized
                    [] ~(amount > 0) -> InvalidDeposit
                    [] newDeposit = -1 \/ newTotal = -1 -> Overflow
                    [] ~Fits(np, Len(winners)) -> AccountDidNotSerialize
                    [] OTHER -> None
       IN /\ err = None => newTotal <= MaxPool
          /\ IF err # None
             THEN /\ result' = Failed("deposit", err)
                  /\ UNCHANGED <<game, players>>
             ELSE /\ players' = IF i # 0
                                THEN [players EXCEPT ![i].deposit = newDeposit]
                                ELSE Append(players, NewContractPlayer(player, amount, clock))
                  /\ game' = [game EXCEPT !.totalDeposits = newTotal, !.prizePool = newTotal]
                  /\ result' = Result("deposit", None, <<>>, <<"DepositEvent">>)

\* for (player_key, score) in scores { if let Some(player) = find(..) {
\*     player.trading_score = score; player.last_active = Clock::get()?.unix_timestamp } }
RECURSIVE StampScores(_, _, _)
StampScores(ps, scores, now) ==
    IF scores = <<>> THEN ps
    ELSE LET e == Head(scores)
             i == FindPlayer(ps, e.playerKey)
         IN StampScores(IF i = 0 THEN ps
                        ELSE [ps EXCEPT ![i].tradingScore = e.score, ![i].last_active = now],
                        Tail(scores), now)

rumble_evaluate_trading_activity(scores) ==
    /\ impl = "contract"
    /\ UNCHANGED <<impl, build, calls, clock, taken, game, winners>>
    /\ IF ~game.exists
       THEN /\ result' = Failed("evaluate", AccountNotInitialized)
            /\ UNCHANGED <<players>>
       ELSE /\ players' = StampScores(players, scores, clock)
            /\ result' = Result("evaluate", None, <<>>, <<"TradingEvaluationEvent">>)

\* prize_pool * 90 on u64: past the domain maximum the build either panics (overflow
\* checks on; here -1) or wraps (overflow checks off)
ArithmeticPanic == "ArithmeticPanic"
U64Mul(a, b, wrap) ==
    IF FitsU64(a * b) THEN a * b
    ELSE IF wrap THEN LowBits(a * b, U64Bits) ELSE -1

\* accounts: the winner accounts the caller passes; burnOk: whether the burner accepts
rumble_select_winners(accounts, burnOk, wrap) ==
    /\ impl = "contract"
    /\ UNCHANGED <<impl, build, calls, clock, taken, players>>
    /\ LET total_players == Len(players)
           num_winners == NumWinners(total_players)
           top == TopPlayers(players)
           prize_pool == game.prizePool
           times90 == U64Mul(prize_pool, 90, wrap)
           times10 == U64Mul(prize_pool, 10, wrap)
           prize_for_winners == times90 \div 100
           buyback_amount == times10 \div 100
           prize_per_winner == prize_for_winners \div num_winners
           err == CASE ~game.exists -> AccountNotInitialized
                    [] ~(game.totalDeposits > 0) -> NoDeposits
                    [] game.active -> GameAlreadyActive
                    [] times90 = -1 \/ times10 = -1 -> ArithmeticPanic
                    [] num_winners = 0 -> DivisionByZero
                    [] \E j \in 1..Len(top) : top[j].key \notin accounts -> WinnerAccountNotFound
                    [] ~burnOk -> BurnFailed
                    [] ~Fits(total_players, Len(top)) -> AccountDidNotSerialize
                    [] OTHER -> None
       IN IF err # None
          THEN /\ result' = Failed("selectWinners", err)
               /\ UNCHANGED <<game, winners>>
          ELSE /\ winners' = WinnerRows(top, num_winners, prize_per_winner)
               /\ game' = [game EXCEPT !.totalDeposits = 0, !.prizePool = 0, !.active = TRUE]
               /\ result' = [Result("selectWinners", None, <<buyback_amount>>,
                                    <<"WinnersSelectedEvent">>) EXCEPT
                                !.credited = winners']

rumble_reset_game ==
    /\ impl = "contract"
    /\ UNCHANGED <<impl, build, calls, clock, taken>>
    /\ LET err == CASE ~game.exists -> AccountNotInitialized
                    [] ~game.active -> GameNotActive
                    [] OTHER -> None
       IN IF err # None
          THEN /\ result' = Failed("reset", err)
               /\ UNCHANGED <<game, players, winners>>
          ELSE /\ game' = ResetGameState(game)
               /\ players' = <<>>
               /\ winners' = <<>>
               /\ result' = Result("reset", None, <<>>, <<"GameResetEvent">>)


(***************************************************************************)
(* The specification: the messages the gateway takes and the steps of the  *)
(* calls in flight, in any interleaving, and the instructions of the       *)
(* contract.                                                               *)
(***************************************************************************)
BurnAmounts == {0, 1}

Next ==
    \/ \E fail \in {"none", "gameSave"} : initializeGame(fail)
    \/ \E a \in ServiceAmounts : handleDeposit(Depositor, a)
    \/ handleEvaluateTrading
    \/ handleSelectWinners
    \/ handleResetGame
    \/ \E c \in 1..Len(calls) : ServiceStep(c)
    \/ \E a \in BurnAmounts : buybackAndBurnTokens(a)
    \/ rumble_initialize
    \/ \E k \in Keys, a \in ContractAmounts : rumble_deposit(k, a)
    \/ \E scores \in ScoreLists : rumble_evaluate_trading_activity(scores)
    \/ \E accounts \in AccountSets, burnOk \in BOOLEAN, wrap \in BOOLEAN :
           rumble_select_winners(accounts, burnOk, wrap)
    \/ rumble_reset_game

Spec == Init /\ [][Next]_vars


(***************************************************************************)
(* Scenarios.  A scenario starts from a round the operations can build and *)
(* has calls of the service in flight at their first await (the messages   *)
(* that have arrived); their records stay in calls when they end, and      *)
(* taken counts the messages that arrive later.                            *)
(***************************************************************************)
DepositCall(playerKey, amount) == Call("deposit", "findGame", playerKey, amount, TRUE)
EvaluateCall == Call("evaluate", "evalFind", "", 0, TRUE)
SettleCall == Call("selectWinners", "settleFind", "", 0, TRUE)

\* the result of the call that built an open round with the rows ps
Built(program, ps) ==
    IF ps = <<>> THEN Result("initialize", None, <<>>, <<>>)
    ELSE Result("deposit", None, <<>>,
                <<IF program = "service" THEN "deposit.made" ELSE "DepositEvent">>)

\* the builds on which the operations can build a round with the rows ps: an account
\* held to InitSpace has no room for a row
RoundBuilds(program, ps) == {b \in Builds(program) : b.sized => ps = <<>>}

\* an open round with the rows ps and the pool pool, and the calls cs in flight
Round(ps, pool, cs) ==
    /\ build \in RoundBuilds(impl, ps)
    /\ players = Stored(impl, build.table, ps, 0)
    /\ game = [NewGame EXCEPT !.totalDeposits = pool, !.prizePool = pool]
    /\ winners = <<>>
    /\ calls = IF impl = "service" THEN cs ELSE <<>>
    /\ taken = 0
    /\ clock = 0

\* the round as its last first deposit (or, without rows, initialize) left it
Scenario(ps, pool, cs) ==
    /\ Round(ps, pool, cs)
    /\ result = Built(impl, ps)

(***************************************************************************)
(* Settlement on rounds of every size: the round after n first deposits    *)
(* (player 1 holds what the others, with 1 each, leave of the pool), then  *)
(* the settlement of either program.                                       *)
(***************************************************************************)
SettlePlayers(n, pool) ==
    [i \in 1..n |-> NewPlayer(KeySeq[i], IF i = 1 THEN pool - (n - 1) ELSE 1)]

SettleInit ==
    \E n \in 0..MaxPlayers, pool \in 0..MaxSettlePool :
        /\ IF n = 0 THEN pool = 0 ELSE pool >= n
        /\ impl \in {"service", "contract"}
        /\ Scenario(SettlePlayers(n, pool), pool, <<SettleCall>>)

SettleNext ==
    \/ \E c \in 1..Len(calls) : SettleSteps(c)
    \/ \E accounts \in AccountSets, burnOk \in BOOLEAN, wrap \in BOOLEAN :
           rumble_select_winners(accounts, burnOk, wrap)

SettleSpec == SettleInit /\ [][SettleNext]_vars

(***************************************************************************)
(* Ranking: rounds of 1..MaxRankPlayers players that deposited 1 each and  *)
(* were evaluated, so that two of them (h1, h2) carry scores s1, s2 and    *)
(* the others the score lo; the players made their first deposits in       *)
(* ascending or in descending order of identity.  Also the round of the    *)
(* scenario of the tests: four deposits of 1000, scores 150, 200, 100,     *)
(* 180.  Then one settlement by either program, which no fault interrupts. *)
(***************************************************************************)
RankScores == {1, 2}
BaseScores == {0, 1}

RankPlayers(n, descending, h1, h2, s1, s2, lo) ==
    [i \in 1..n |->
        [key |-> KeySeq[IF descending THEN n + 1 - i ELSE i],
         deposit |-> 1,
         tradingScore |-> IF i = h1 THEN s1 ELSE IF i = h2 THEN s2 ELSE lo]]

ScenarioPlayers ==
    << [key |-> "A", deposit |-> 1000, tradingScore |-> 150],
       [key |-> "B", deposit |-> 1000, tradingScore |-> 200],
       [key |-> "C", deposit |-> 1000, tradingScore |-> 100],
       [key |-> "D", deposit |-> 1000, tradingScore |-> 180] >>

RankRounds ==
    {ScenarioPlayers} \cup
    UNION {{RankPlayers(n, d, h1, h2, s1, s2, lo) :
               d \in BOOLEAN, h1 \in 1..n, h2 \in 1..n,
               s1 \in RankScores, s2 \in RankScores, lo \in BaseScores} :
           n \in 1..MaxRankPlayers}

\* the outcome of a successful evaluation
Evaluated(program) ==
    Result("evaluate", None, <<>>,
           <<IF program = "service" THEN "trading.evaluated" ELSE "TradingEvaluationEvent">>)

\* a successful deposit can be the last call of a run that leaves the rows ps: in the
\* service a deposit of 0 to a player of the round; in the contract, where the amount
\* is above 0, the first deposit of the last row, not evaluated since, or a further
\* deposit to a row
DepositLast(program, ps) ==
    /\ ps # <<>>
    /\ \/ program = "service"
       \/ ps[Len(ps)].tradingScore = 0
       \/ \E i \in 1..Len(ps) : ps[i].deposit >= 2

\* the outcomes of the last call of the runs that build the evaluated round ps: the
\* evaluation, or a deposit after it
RankResults(program, ps) ==
    {Evaluated(program)} \cup (IF DepositLast(program, ps) THEN {Built(program, ps)} ELSE {})

RankInit ==
    /\ impl \in {"service", "contract"}
    /\ \E round \in RankRounds :
           /\ Round(round, SumDeposits(round), <<SettleCall>>)
           /\ result \in RankResults(impl, round)

RankNext ==
    \/ \E c \in 1..Len(calls) :
           \/ \E order \in LoadOrders(Len(players)) : settle_findGame(c, order)
           \/ settle_saveWinner(c, FALSE)
           \/ settle_burn(c, FALSE)
           \/ settle_saveGame(c, "none")
    \/ \E wrap \in BOOLEAN : rumble_select_winners(AllKeys, TRUE, wrap)

RankSpec == RankInit /\ [][RankNext]_vars

(***************************************************************************)
(* Concurrent deposits in the service: an open round with no deposit yet   *)
(* and the DEPOSIT messages that have arrived, whose calls no fault        *)
(* interrupts.                                                             *)
(***************************************************************************)
CallAmounts == {1, 2}

ConcurrentInit ==
    /\ impl = "service"
    /\ \E n \in 1..MaxCalls :
           \E cs \in [1..n -> {DepositCall(k, a) : k \in Keys, a \in CallAmounts}] :
               Scenario(<<>>, 0, cs)

ConcurrentNext ==
    \E c \in 1..Len(calls) :
        \/ deposit_findGame(c)
        \/ \E i \in 0..Len(players) : deposit_findPlayer(c, i)
        \/ deposit_savePlayer(c, FALSE)
        \/ deposit_saveGame(c, "none")

ConcurrentSpec == ConcurrentInit /\ [][ConcurrentNext]_vars

(***************************************************************************)
(* Evaluation: open rounds of the identities A and B (none, one or both,   *)
(* in either order of first deposit, 1 deposited each), evaluated with     *)
(* score lists of up to two entries that may name an id more than once and *)
(* may name C, which has no record.                                        *)
(***************************************************************************)
EvalKeys == {"A", "B", "C"}
EvalScores == {1, 2}
EvalEntries == [playerKey : EvalKeys, score : EvalScores]
EvalListLens == {0, 1, 2}
EvalScoreLists == UNION {[1..n -> EvalEntries] : n \in EvalListLens}

EvalRounds ==
    {<<>>, <<NewPlayer("A", 1)>>, <<NewPlayer("B", 1)>>,
     <<NewPlayer("A", 1), NewPlayer("B", 1)>>, <<NewPlayer("B", 1), NewPlayer("A", 1)>>}

EvalInit ==
    /\ impl \in {"service", "contract"}
    /\ \E round \in EvalRounds : Scenario(round, SumDeposits(round), <<EvaluateCall>>)

EvalNext ==
    \/ \E c \in 1..Len(calls) :
           \/ \E order \in LoadOrders(Len(players)) : evaluate_findGame(c, order)
           \/ \E scores \in EvalScoreLists, fail \in {"none", "ai", "emit"} :
                  evaluate_computeScores(c, scores, fail)
           \/ \E fail \in {"none", "playerSave", "emit"} : evaluate_savePlayer(c, fail)
    \/ \E scores \in EvalScoreLists : rumble_evaluate_trading_activity(scores)

EvalSpec == EvalInit /\ [][EvalNext]_vars

(***************************************************************************)
(* Time: the rumble program with the cluster clock advancing between       *)
(* instructions.  A player row carries one timestamp, last_active, written *)
(* when the first deposit creates the row; the service stores none.        *)
(***************************************************************************)
\* Clock::get()?.unix_timestamp grows between transactions
Tick ==
    /\ clock < MaxClock
    /\ clock' = clock + 1
    /\ UNCHANGED <<impl, build, game, players, winners, result, calls, taken>>

ClockInit ==
    /\ Init
    /\ impl = "contract"

ClockNext ==
    \/ Tick
    \/ rumble_initialize
    \/ \E player \in Keys : rumble_deposit(player, 1)
    \/ \E scores \in ScoreLists : rumble_evaluate_trading_activity(scores)
    \/ rumble_select_winners(AllKeys, TRUE, FALSE)
    \/ rumble_reset_game

ClockSpec == ClockInit /\ [][ClockNext]_vars

(***************************************************************************)
(* Deposits in flight across settlements and resets (service): the DEPOSIT *)
(* messages that have arrived on a new round, and the SELECT_WINNERS and   *)
(* RESET_GAME messages that arrive while their calls run; no fault         *)
(* interrupts a call.                                                      *)
(***************************************************************************)
StaleAmounts == {10, 45}
StaleCallCounts == {1, 2}

StaleInit ==
    /\ impl = "service"
    /\ \E n \in StaleCallCounts :
           \E cs \in [1..n -> {DepositCall(k, a) : k \in Keys, a \in StaleAmounts}] :
               Scenario(<<>>, 0, cs)

StaleNext ==
    \/ handleSelectWinners
    \/ handleResetGame
    \/ \E c \in 1..Len(calls) :
           \/ deposit_findGame(c)
           \/ \E i \in 0..Len(players) : deposit_findPlayer(c, i)
           \/ deposit_savePlayer(c, FALSE)
           \/ deposit_saveGame(c, "none")
           \/ \E order \in LoadOrders(Len(players)) : settle_findGame(c, order)
           \/ settle_saveWinner(c, FALSE)
           \/ settle_burn(c, FALSE)
           \/ settle_saveGame(c, "none")
           \/ reset_findGame(c)
           \/ reset_deleteWinners(c, FALSE)
           \/ reset_deletePlayers(c, FALSE)
           \/ reset_saveGame(c, "none")

StaleSpec == StaleInit /\ [][StaleNext]_vars

(***************************************************************************)
(* Concurrent settlements in the service: an open round of one or two      *)
(* players with a pool of 10 or 45, and the SELECT_WINNERS messages that   *)
(* have arrived; no fault interrupts a call.                               *)
(***************************************************************************)
RaceCallCounts == {1, 2, 3}
RacePlayerCounts == {1, 2}

RaceInit ==
    /\ impl = "service"
    /\ \E n \in RacePlayerCounts, pool \in StaleAmounts, m \in RaceCallCounts :
           Scenario(SettlePlayers(n, pool), pool, [c \in 1..m |-> SettleCall])

RaceNext ==
    \E c \in 1..Len(calls) :
        \/ \E order \in LoadOrders(Len(players)) : settle_findGame(c, order)
        \/ settle_saveWinner(c, FALSE)
        \/ settle_burn(c, FALSE)
        \/ settle_saveGame(c, "none")

RaceSpec == RaceInit /\ [][RaceNext]_vars


(***************************************************************************)
(* Vocabulary of the properties.                                           *)
(***************************************************************************)
PoolConserved == game.totalDeposits = SumDeposits(players)

Settled == game.exists /\ game.active

\* a call of op ends in the step / ends in the step without error
Called(op) == result'.op = op
Succeeded(op) == result'.op = op /\ result'.err = None

\* the step is a step of a call of op: the instruction of the contract, or a step
\* the service call takes after one of its awaits
StepOf(op) ==
    IF impl = "service"
    THEN \E c \in 1..Len(calls) : calls[c].op = op /\ ServiceStep(c)
    ELSE result'.op = op

\* no call of the service is part-way
Quiet == Running(calls) = {}

\* the calls of the scenario have all returned without error
AllDone == calls # <<>> /\ \A c \in 1..Len(calls) : calls[c].pc = "done"

RoundUnchanged == game' = game /\ players' = players /\ winners' = winners

\* the winner records written by the call that ends in the step
NewRows == result'.credited

\* the service calls that end in the step
Ending ==
    {c \in Running(calls) :
        calls' = Retire(calls, c, "done") \/ calls' = Retire(calls, c, "failed")}

\* the pool read by the settlement that ends in the step
SettledPool ==
    IF impl = "service"
    THEN calls[CHOOSE c \in Ending : calls[c].op = "selectWinners"].pool
    ELSE game.prizePool

RECURSIVE SumPrizes(_)
SumPrizes(rows) == IF rows = <<>> THEN 0 ELSE Head(rows).prize + SumPrizes(Tail(rows))

\* the payout pool a settlement of pool P computes: floor(P * 90 / 100), and on the
\* contract, when P * 90 passes the u64 maximum of a build that wraps, the wrapped
\* product over 100
PayoutPools(P) ==
    IF impl = "service" THEN {PrizeForWinners(P)}
    ELSE {x \div 100 : x \in {U64Mul(P, 90, wrap) : wrap \in BOOLEAN} \ {-1}}

(***************************************************************************)
(* C1. Pool conservation: once the deposits made on a freshly initialized  *)
(* round (any identities, positive amounts, repeated deposits of one       *)
(* identity included) have all succeeded, total_pool is exactly the sum of *)
(* the deposit fields of the participant records.                          *)
(***************************************************************************)
C1_PoolConservation == AllDone => PoolConserved

(***************************************************************************)
(* C2. In every reachable state total_pool equals the sum of the deposits  *)
(* of the participants in the round, the Settled state included.  Stated   *)
(* for the rumble program, where no instruction can stop part-way.         *)
(***************************************************************************)
C2_PoolEqualsDeposits == impl = "contract" => PoolConserved

(***************************************************************************)
(* C3. Settle atomicity: a settlement that fails has written no winner     *)
(* record and burned nothing, and its last step leaves the round as it     *)
(* was.                                                                    *)
(***************************************************************************)
C3_SettleAtomic ==
    [][ (Called("selectWinners") /\ result'.err # None) =>
            /\ NewRows = <<>>
            /\ result'.burned = <<>>
            /\ RoundUnchanged ]_vars

(***************************************************************************)
(* C4. Settlement conservation: a successful settlement of pool P burns    *)
(* P - floor(P * 90 / 100), so that payout pool and burn add up to P.      *)
(***************************************************************************)
C4_SettlementConservation ==
    [][ Succeeded("selectWinners") =>
            result'.burned = <<SettledPool - PrizeForWinners(SettledPool)>> ]_vars

(***************************************************************************)
(* C5. A successful settlement with w >= 1 winners writes the same payout  *)
(* floor(payout_pool / w) into every winner record; the payouts add up to  *)
(* at most payout_pool and fall short of it by at most w - 1.              *)
(***************************************************************************)
C5_EqualPayouts ==
    [][ (Succeeded("selectWinners") /\ Len(NewRows) >= 1) =>
            LET w == Len(NewRows)
            IN \E payoutPool \in PayoutPools(SettledPool) :
                   /\ \A i \in 1..w : NewRows[i].prize = payoutPool \div w
                   /\ SumPrizes(NewRows) <= payoutPool
                   /\ payoutPool - SumPrizes(NewRows) <= w - 1
                   /\ winners' = NewRows ]_vars

\* the service settled a round of 21: three winners, and the payout pool is not
\* a multiple of 3 (2 base units are left over)
C5_Witness ==
    /\ impl = "service"
    /\ result.op = "selectWinners" /\ result.err = None
    /\ Len(winners) = 3 /\ result.credited = winners
    /\ PrizeForWinners(game.totalDeposits) - SumPrizes(winners) = 2

(***************************************************************************)
(* C6. Winner count: a successful settlement of a round of n >= 1          *)
(* participants writes exactly ceil(n / 10) winner records: the least w    *)
(* with 10 w >= n; at least 1, at most n; 1 for n in 1..10, 2 for n = 11.  *)
(***************************************************************************)
C6_WinnerCount ==
    [][ (Succeeded("selectWinners") /\ Len(players) >= 1) =>
            LET n == Len(players)
                w == Len(NewRows)
            IN /\ 10 * w >= n /\ 10 * (w - 1) < n
               /\ 1 <= w /\ w <= n
               /\ (n <= 10 => w = 1)
               /\ (n = 11 => w = 2)
               /\ Len(winners') = w ]_vars

\* a round of 11 was settled with 2 winners
C6_Witness ==
    /\ result.op = "selectWinners" /\ result.err = None
    /\ Len(players) = 11
    /\ Len(winners) = 2 /\ Len(result.credited) = 2

(***************************************************************************)
(* C7. Guard: a deposit on a round that is Settled or does not exist       *)
(* fails and leaves the pool, the participants and the state unchanged.    *)
(***************************************************************************)
C7_DepositGuard ==
    [][ (Called("deposit") /\ (game.active \/ ~game.exists)) =>
            (result'.err # None /\ RoundUnchanged) ]_vars

(***************************************************************************)
(* C8. Guard: a settlement of a round that is already Settled fails with   *)
(* the error GameAlreadyActive and leaves the round unchanged, with no     *)
(* burn.                                                                   *)
(***************************************************************************)
C8_SettleTwice ==
    [][ (Called("selectWinners") /\ Settled) =>
            /\ result'.err = GameAlreadyActive
            /\ result'.burned = <<>>
            /\ RoundUnchanged ]_vars

(***************************************************************************)
(* C9. Guard: a settlement of an unsettled round whose pool is 0 fails     *)
(* with NoDeposits and changes nothing: no Settled state, no winner        *)
(* record, no burn.                                                        *)
(***************************************************************************)
C9_SettleEmptyPool ==
    [][ (Called("selectWinners") /\ game.exists /\ ~game.active
             /\ game.totalDeposits = 0 /\ game.prizePool = 0) =>
            /\ result'.err = NoDeposits
            /\ result'.burned = <<>>
            /\ RoundUnchanged ]_vars

(***************************************************************************)
(* C10. Guard: a reset acts on a Settled round only.  While the round is   *)
(* not Settled no step of a reset deletes a winner or participant record   *)
(* or saves the round, and a reset that ends there has failed and emitted  *)
(* no event.                                                               *)
(***************************************************************************)
C10_ResetGuard ==
    [][ (StepOf("reset") /\ ~Settled) =>
            /\ RoundUnchanged
            /\ Called("reset") => (result'.err # None /\ result'.events = <<>>) ]_vars

(***************************************************************************)
(* C11. After a successful reset the participants and the winners are      *)
(* empty, totalDeposits and prizePool are 0 and the round is no longer     *)
(* Settled.                                                                *)
(***************************************************************************)
C11_ResetClears ==
    [][ Succeeded("reset") =>
            /\ players' = <<>> /\ winners' = <<>>
            /\ game'.exists /\ ~game'.active
            /\ game'.totalDeposits = 0 /\ game'.prizePool = 0 ]_vars

(***************************************************************************)
(* C12. After a successful settlement of a round with at least one         *)
(* participant the round is Settled, the winners are not empty, and both   *)
(* totalDeposits and prizePool read 0.                                     *)
(***************************************************************************)
C12_SettleZeroesPool ==
    [][ (Succeeded("selectWinners") /\ Len(players) >= 1) =>
            /\ game'.active
            /\ winners' # <<>>
            /\ game'.totalDeposits = 0 /\ game'.prizePool = 0 ]_vars

(***************************************************************************)
(* C13. From the Settled state only reset succeeds: a deposit, an          *)
(* evaluation of the trading activities or a settlement that ends on a     *)
(* Settled round fails and leaves the participants (deposits and scores),  *)
(* the winners and the pool unchanged.                                     *)
(***************************************************************************)
C13_OnlyResetFromSettled ==
    [][ (Settled /\ result'.op \in {"deposit", "evaluate", "selectWinners"}) =>
            (result'.err # None /\ RoundUnchanged) ]_vars

(***************************************************************************)
(* C14. In every state that the operations leave behind (no call is        *)
(* part-way), the states left by an operation that failed included, the    *)
(* winner collection is non-empty only if the round is Settled.            *)
(***************************************************************************)
C14_WinnersOnlyWhenSettled == Quiet => (winners # <<>> => Settled)

\* the trading score of the participant a winner row names
ScoreOf(row) == players[FindPlayer(players, row.playerKey)].tradingScore

(***************************************************************************)
(* C15. Ranking: the winners a settlement writes are participants of the   *)
(* round, each once, in descending order of trading score, and no          *)
(* participant left out has a strictly higher score than a winner.  The    *)
(* round of four deposits of 1000 with scores A 150, B 200, C 100, D 180   *)
(* has the single winner B with payout 3600, and 400 burned.               *)
(***************************************************************************)
C15_Ranking ==
    [][ Succeeded("selectWinners") =>
            LET w == Len(NewRows)
                chosen == {NewRows[i].playerKey : i \in 1..w}
            IN /\ \A i \in 1..w : FindPlayer(players, NewRows[i].playerKey) # 0
               /\ Cardinality(chosen) = w
               /\ \A i \in 1..(w - 1) : ScoreOf(NewRows[i]) >= ScoreOf(NewRows[i + 1])
               /\ \A i \in 1..w, j \in 1..Len(players) :
                      players[j].key \notin chosen =>
                          players[j].tradingScore <= ScoreOf(NewRows[i])
               /\ Rows(players) = ScenarioPlayers =>
                      /\ NewRows = << [playerKey |-> "B", prize |-> 3600] >>
                      /\ result'.burned = << 400 >>
               /\ winners' = NewRows ]_vars

\* the scenario round was settled: B won 3600 and 400 were burned
C15_Witness ==
    /\ Rows(players) = ScenarioPlayers
    /\ result.op = "selectWinners" /\ result.err = None
    /\ winners = << [playerKey |-> "B", prize |-> 3600] >>
    /\ result.burned = << 400 >>

\* a round of 11 was settled with two winners of different scores, the best first
C15_WitnessTwoWinners ==
    /\ result.op = "selectWinners" /\ result.err = None
    /\ Len(players) = 11 /\ Len(winners) = 2
    /\ ScoreOf(winners[1]) > ScoreOf(winners[2])
    /\ \E j \in 1..Len(players) : players[j].tradingScore < ScoreOf(winners[2])

\* the place of an identity in the ascending order of identities
KeyIndex(k) == CHOOSE i \in 1..Len(KeySeq) : KeySeq[i] = k

\* p comes before q in the order by descending score, then ascending identity
Outranks(p, q) ==
    \/ p.tradingScore > q.tradingScore
    \/ p.tradingScore = q.tradingScore /\ KeyIndex(p.key) < KeyIndex(q.key)

(***************************************************************************)
(* C16. Deterministic tie-break: the i-th winner a settlement writes is    *)
(* the i-th participant in the order by descending score and, among equal  *)
(* scores, ascending identity; so the winners do not depend on the order   *)
(* in which the participants made their deposits.  Stated for the rumble   *)
(* program, whose player vector keeps the order of the first deposits.     *)
(***************************************************************************)
C16_TieBreakByIdentity ==
    [][ (impl = "contract" /\ Succeeded("selectWinners")) =>
            \A i \in 1..Len(NewRows) :
                LET p == players[FindPlayer(players, NewRows[i].playerKey)]
                IN Cardinality({j \in 1..Len(players) : Outranks(players[j], p)}) = i - 1 ]_vars

\* documented weights of the composite score (percent)
HoldingsWeight == 40
ActivityWeight == 30
SpeedWeight == 20
RandomWeight == 10

\* the sub-scores a wallet can have besides its trading score: token holdings, speed
\* of deposit and random factor; neither program stores or reads any of them
SubScores == [holdings : {0, 1}, speed : {0, 1}, random : {0, 1}]

\* Total Score = 0.4 Holdings + 0.3 Trading + 0.2 Speed + 0.1 Random (times 100)
Composite(p, sub) ==
    HoldingsWeight * sub[p.key].holdings + ActivityWeight * p.tradingScore
        + SpeedWeight * sub[p.key].speed + RandomWeight * sub[p.key].random

(***************************************************************************)
(* C17. Composite ranking: whatever holdings, speed and random sub-scores  *)
(* the wallets have, a participant left out by a settlement has no higher  *)
(* composite score (40% holdings, 30% activity, 20% speed, 10% random)     *)
(* than a winner with the same activity score.                             *)
(***************************************************************************)
C17_CompositeRanking ==
    [][ Succeeded("selectWinners") =>
            \A sub \in [Keys -> SubScores] :
                \A i \in 1..Len(NewRows), j \in 1..Len(players) :
                    LET p == players[FindPlayer(players, NewRows[i].playerKey)]
                        q == players[j]
                    IN (q.key \notin {NewRows[k].playerKey : k \in 1..Len(NewRows)}
                            /\ q.tradingScore = p.tradingScore)
                           => Composite(q, sub) <= Composite(p, sub) ]_vars

\* the sum of the amounts of the deposit calls in cs made for an identity of ks
\* (SumAmounts) and the deposits recorded for identity k
RECURSIVE DepositOf(_, _)
DepositOf(ps, k) ==
    IF ps = <<>> THEN 0
    ELSE (IF Head(ps).key = k THEN Head(ps).deposit ELSE 0) + DepositOf(Tail(ps), k)

(***************************************************************************)
(* C18. Concurrent deposits on one round: once all the deposit calls       *)
(* submitted concurrently have completed successfully, totalDeposits has   *)
(* grown by the sum of all their amounts and the deposit of each           *)
(* participant by the sum of that participant's amounts.                   *)
(***************************************************************************)
C18_NoLostDeposit ==
    AllDone =>
        /\ game.totalDeposits = SumAmounts(calls, Keys)
        /\ \A k \in Keys : DepositOf(players, k) = SumAmounts(calls, {k})

(***************************************************************************)
(* C19. deposit requires amount > 0: a deposit that succeeds has added a   *)
(* positive amount, so it has raised totalDeposits, and no participant     *)
(* record is created with a deposit of 0 or less (a deposit of amount 0 or *)
(* of a negative amount fails and changes nothing).                        *)
(***************************************************************************)
C19_PositiveAmount ==
    [][ Succeeded("deposit") =>
            /\ \A c \in Ending : calls[c].amount > 0
            /\ impl = "contract" =>
                   /\ game'.totalDeposits > game.totalDeposits
                   /\ \A i \in 1..Len(players') :
                          IF i <= Len(players) THEN players'[i].deposit >= players[i].deposit
                          ELSE players'[i].deposit > 0 ]_vars

\* the deposit call has passed its save of the player row
PlayerSaved(call) == call.op = "deposit" /\ call.pc = "saveGame"

(***************************************************************************)
(* C20. Failed deposits: a deposit that fails, by overflow of the integer  *)
(* domain or by a failed save, has saved nothing: it leaves totalDeposits  *)
(* and every participant's deposit at their previous values, never one     *)
(* updated without the other; a deposit past the domain maximum fails      *)
(* (Overflow).                                                             *)
(***************************************************************************)
\* n is past the maximum of the integer domain (u64)
PastMaximum(n) == ShiftRight(n, U64Bits) > 0

C20_FailedDepositChangesNothing ==
    [][ /\ (Called("deposit") /\ result'.err # None) =>
               /\ game' = game /\ players' = players
               /\ \A c \in Ending : ~PlayerSaved(calls[c])
        /\ Called("deposit") =>
               (~PastMaximum(game'.totalDeposits)
                    /\ \A i \in 1..Len(players') : ~PastMaximum(players'[i].deposit)) ]_vars

\* the effect of a deposit of amount a by identity k on the participant records
PlayerDeposited(k, a) ==
    LET i == FindPlayer(players, k)
        n == Len(players)
    IN IF i = 0
       THEN /\ Len(players') = n + 1
            /\ SubSeq(players', 1, n) = players
            /\ players'[n + 1].key = k
            /\ players'[n + 1].deposit = a
            /\ players'[n + 1].tradingScore = 0
       ELSE /\ Len(players') = n
            /\ \A j \in 1..n : j # i => players'[j] = players[j]
            /\ players'[i].key = k
            /\ players'[i].deposit = players[i].deposit + a
            /\ players'[i].tradingScore = players[i].tradingScore

\* the effect of a deposit of amount a on the round
PoolDeposited(a) ==
    /\ game'.totalDeposits = game.totalDeposits + a
    /\ game'.prizePool = game'.totalDeposits

(***************************************************************************)
(* C21. A successful deposit of amount a by identity k: when k has no      *)
(* record, one record is added for k with deposit a and trading score 0;   *)
(* when k has a record, its deposit grows by exactly a and its trading     *)
(* score stays; every other record is untouched; totalDeposits grows by    *)
(* exactly a and prizePool equals the new totalDeposits.  In the service   *)
(* the record is written by the save of the player and the pool by the     *)
(* save of the round.                                                      *)
(***************************************************************************)
C21_DepositEffect ==
    [][ /\ \A c \in 1..Len(calls) :
               /\ deposit_savePlayer(c, FALSE) =>
                      PlayerDeposited(calls[c].playerKey, calls[c].amount)
               /\ deposit_saveGame(c, "none") => PoolDeposited(calls[c].amount)
        /\ \A k \in Keys, a \in ContractAmounts :
               (rumble_deposit(k, a) /\ Succeeded("deposit")) =>
                   (PlayerDeposited(k, a) /\ PoolDeposited(a)) ]_vars

\* the score the list supplies for identity k (the last one, when it names k more than
\* once), -1 when it does not name k
RECURSIVE SuppliedScore(_, _)
SuppliedScore(scores, k) ==
    IF scores = <<>> THEN -1
    ELSE LET n == Len(scores)
         IN IF scores[n].playerKey = k THEN scores[n].score
            ELSE SuppliedScore(SubSeq(scores, 1, n - 1), k)

\* every participant the list names carries the score the list supplies for it
ScoresStand(scores) ==
    \A i \in 1..Len(players') :
        SuppliedScore(scores, players'[i].key) # -1 =>
            players'[i].tradingScore = SuppliedScore(scores, players'[i].key)

\* the step adds and removes no record and changes no key and no deposit
SameRecords ==
    /\ Len(players') = Len(players)
    /\ \A i \in 1..Len(players) :
           /\ players'[i].key = players[i].key
           /\ players'[i].deposit = players[i].deposit

\* of the trading scores, the step changes at most those of the participants in ks
OnlyScoresOf(ks) ==
    /\ SameRecords
    /\ \A i \in 1..Len(players) :
           players[i].key \notin ks => players'[i].tradingScore = players[i].tradingScore

\* the identities the list names
Named(scores) == {scores[i].playerKey : i \in 1..Len(scores)}

(***************************************************************************)
(* C22. An evaluation of an existing round with the list scores succeeds   *)
(* and sets the trading score of every participant the list names to the   *)
(* score supplied for it; a participant the list does not name keeps its   *)
(* score; an id without a record is ignored: no record is created, and no  *)
(* key or deposit changes.  In the service the score of a participant is   *)
(* written by the save of its record, and the list is complete when the    *)
(* call returns.                                                           *)
(***************************************************************************)
C22_ScoresApplied ==
    [][ /\ \A c \in 1..Len(calls) :
               /\ \A scores \in EvalScoreLists :
                      evaluate_computeScores(c, scores, "none") =>
                          /\ players' = players
                          /\ Called("evaluate") =>
                                 (result'.err = None /\ ScoresStand(scores))
               /\ evaluate_savePlayer(c, "none") =>
                      /\ OnlyScoresOf({Head(calls[c].rows).key})
                      /\ Called("evaluate") =>
                             (result'.err = None /\ ScoresStand(calls[c].scores))
        /\ \A scores \in EvalScoreLists :
               (rumble_evaluate_trading_activity(scores) /\ game.exists) =>
                   /\ result'.err = None
                   /\ OnlyScoresOf(Named(scores))
                   /\ ScoresStand(scores) ]_vars

\* an evaluation gave two participants their scores
C22_Witness ==
    /\ result.op = "evaluate" /\ result.err = None
    /\ Len(players) = 2
    /\ players[1].tradingScore = 2 /\ players[2].tradingScore = 1

\* the rows after the saves of the Player objects todo, one after the other
RECURSIVE SaveAll(_, _)
SaveAll(ps, todo) ==
    IF todo = <<>> THEN ps ELSE SaveAll(SavePlayer(ps, Head(todo)), Tail(todo))

\* the rows after one more evaluation of the rows ps with the list scores at time now
EvaluatedAgain(ps, scores, now) ==
    IF impl = "service" THEN SaveAll(ps, ScoredPlayers(ps, scores))
    ELSE StampScores(ps, scores, now)

\* evaluating the rows of the round again with the list changes no record and not the
\* players a settlement selects
SameAgain(scores) ==
    LET again == EvaluatedAgain(players', scores, clock')
    IN /\ Rows(again) = Rows(players')
       /\ Rows(TopPlayers(again)) = Rows(TopPlayers(players'))

(***************************************************************************)
(* C23. Idempotent scoring: evaluating again with the same list, right     *)
(* after an evaluation, leaves every trading score as the first            *)
(* evaluation left it (a score is overwritten, never added to), and the    *)
(* players a settlement would select are the same.                         *)
(***************************************************************************)
C23_IdempotentScoring ==
    [][ Succeeded("evaluate") =>
            /\ \A c \in 1..Len(calls) :
                   /\ \A scores \in EvalScoreLists :
                          evaluate_computeScores(c, scores, "none") => SameAgain(scores)
                   /\ evaluate_savePlayer(c, "none") => SameAgain(calls[c].scores)
            /\ \A scores \in EvalScoreLists :
                   rumble_evaluate_trading_activity(scores) => SameAgain(scores) ]_vars

\* an evaluation gave the only participant a score above 0
C23_Witness ==
    /\ result.op = "evaluate" /\ result.err = None
    /\ Len(players) = 1
    /\ players[1].tradingScore = 2

(***************************************************************************)
(* C24. A successful evaluation of a round that is not Settled leaves the  *)
(* round in the state Evaluating, also when the score list is empty.  Of   *)
(* the operations, deposit is the one the state machine accepts in Open    *)
(* and not in Evaluating: right after a successful evaluation of a round   *)
(* that is not Settled, a deposit fails.                                   *)
(***************************************************************************)
C24_EvaluatingAfterScores ==
    [][ ( /\ result.op = "evaluate" /\ result.err = None
          /\ game.exists /\ ~game.active
          /\ Called("deposit") ) => result'.err # None ]_vars

\* the event each operation emits as its last statement
EventOf(program, op) ==
    IF program = "service"
    THEN CASE op = "deposit" -> "deposit.made"
           [] op = "evaluate" -> "trading.evaluated"
           [] op = "selectWinners" -> "winners.selected"
           [] op = "reset" -> "game.reset"
    ELSE CASE op = "deposit" -> "DepositEvent"
           [] op = "evaluate" -> "TradingEvaluationEvent"
           [] op = "selectWinners" -> "WinnersSelectedEvent"
           [] op = "reset" -> "GameResetEvent"

\* the last save of the operation is in the stored round
SavedBy(op) ==
    CASE op = "deposit" -> game.prizePool = game.totalDeposits
      [] op = "evaluate" -> game.exists
      [] op = "selectWinners" -> game.active /\ game.prizePool = 0
      [] op = "reset" -> ~game.active /\ game.totalDeposits = 0 /\ game.prizePool = 0

(***************************************************************************)
(* C25. Notifications: a deposit, evaluation, settlement or reset that     *)
(* completes emits exactly one event, the one of its kind, and its last    *)
(* save is then in the stored round; one that fails emits no event.        *)
(***************************************************************************)
C25_OneEventPerOperation ==
    result.op \in {"deposit", "evaluate", "selectWinners", "reset"} =>
        IF result.err = None
        THEN result.events = <<EventOf(impl, result.op)>> /\ SavedBy(result.op)
        ELSE result.events = <<>>

\* a deposit saved the player, failed at the save of the round and emitted nothing
C25_Witness ==
    /\ result.op = "deposit" /\ result.err = DbError
    /\ players # <<>> /\ game.totalDeposits = 0
    /\ result.events = <<>>

(***************************************************************************)
(* C26. A successful initialize leaves a round with totalDeposits and      *)
(* prizePool 0, with no participants and no winners, that is not Settled   *)
(* (active false).                                                         *)
(***************************************************************************)
C26_InitializeEmpty ==
    [][ Succeeded("initialize") =>
            /\ game'.exists
            /\ game'.totalDeposits = 0 /\ game'.prizePool = 0
            /\ ~game'.active
            /\ players' = <<>> /\ winners' = <<>> ]_vars

(***************************************************************************)
(* C27. The time of a participant's first deposit is written once, when    *)
(* the deposit creates the record, and no later operation changes it until *)
(* the record is destroyed by reset: every step but a reset leaves the     *)
(* timestamp of every record as it was.                                    *)
(***************************************************************************)
C27_JoinTimeImmutable ==
    [][ result'.op # "reset" =>
            \A i \in 1..Len(players) :
                (i <= Len(players') /\ players'[i].key = players[i].key) =>
                    players'[i].last_active = players[i].last_active ]_vars

(***************************************************************************)
(* C28. In every state the operations leave behind a pool above 0 implies  *)
(* that the round has a participant, so a settlement that passes its       *)
(* guards (round not Settled, pool above 0) has a winner count of at least *)
(* 1 and never divides by zero.                                            *)
(***************************************************************************)
C28_PoolImpliesParticipant ==
    Quiet => ((game.totalDeposits > 0 \/ game.prizePool > 0) => players # <<>>)

(***************************************************************************)
(* C29. selectWinners on a round that is not Settled and has a prize pool  *)
(* above 0 but no participant succeeds: it passes the guard, writes no     *)
(* winner record (the winner list is empty), burns floor(pool * 10 / 100), *)
(* sets prizePool to 0 and marks the round Settled (active true).          *)
(***************************************************************************)
C29_SettleWithoutPlayers ==
    [][ \A c \in 1..Len(calls) :
            /\ \A order \in LoadOrders(Len(players)) :
                   ( /\ settle_findGame(c, order)
                     /\ game.exists /\ ~game.active
                     /\ game.prizePool > 0
                     /\ players = <<>> ) =>
                       /\ result' = NoResult
                       /\ calls'[c].pc = "settleBurn" /\ calls'[c].top = <<>>
            /\ ( /\ settle_saveGame(c, "none")
                 /\ calls[c].pool > 0
                 /\ calls[c].top = <<>> ) =>
                   /\ result'.op = "selectWinners" /\ result'.err = None
                   /\ NewRows = <<>> /\ winners' = winners
                   /\ result'.burned = <<(calls[c].pool * 10) \div 100>>
                   /\ game'.prizePool = 0
                   /\ game'.active ]_vars

\* a round with a pool of 45 and no participant was settled: 4 burned, no winner
C29_Witness ==
    /\ result.op = "selectWinners" /\ result.err = None
    /\ players = <<>> /\ winners = <<>>
    /\ result.burned = <<4>>
    /\ game.active /\ game.prizePool = 0 /\ game.totalDeposits = 45

\* the reset call has passed its delete of the winner records
WinnersDeleted(call) == call.op = "reset" /\ call.pc \in {"resetPlayers", "resetSave"}

(***************************************************************************)
(* C30. The winner records are exactly what the settlement wrote until the *)
(* reset: while the round is Settled no step of a deposit, an evaluation   *)
(* or a settlement adds, removes or modifies a winner record, and a reset  *)
(* that fails has deleted none.                                            *)
(***************************************************************************)
C30_WinnersImmutable ==
    [][ /\ (Settled /\ ~StepOf("reset")) => winners' = winners
        /\ (Called("reset") /\ result'.err # None) =>
               \A c \in Ending : ~WinnersDeleted(calls[c]) ]_vars

(***************************************************************************)
(* C31. A successful settlement invokes the burn exactly once and writes   *)
(* exactly one winner record, with the payout per winner, for each         *)
(* selected winner; a settlement attempt that ends in failure burns        *)
(* nothing and credits no winner.                                          *)
(***************************************************************************)
C31_BurnAndCreditOnce ==
    [][ Called("selectWinners") =>
            IF result'.err = None
            THEN /\ Len(result'.burned) = 1
                 /\ \A i, j \in 1..Len(NewRows) :
                        /\ NewRows[i].prize = NewRows[j].prize
                        /\ NewRows[i].playerKey = NewRows[j].playerKey => i = j
            ELSE /\ result'.burned = <<>>
                 /\ NewRows = <<>> ]_vars

(***************************************************************************)
(* C32. When the emit throws after the state change of an operation was    *)
(* saved, the operation reports an error and the saved change stays: the   *)
(* round the deposit saved, with the amount in totalDeposits and           *)
(* prizePool, and the record of the player; the Settled round, its winner  *)
(* records and the burn; the reset round; the scores.  The step in which   *)
(* the emit throws undoes nothing.                                         *)
(***************************************************************************)
C32_EmitFailureKeepsState ==
    [][ result'.err = EmitError =>
            \A c \in Ending :
                /\ winners' = winners
                /\ calls[c].op = "deposit" =>
                       /\ PlayerSaved(calls[c])
                       /\ players' = players
                       /\ game' = calls[c].game
                       /\ game'.prizePool = game'.totalDeposits
                /\ calls[c].op = "selectWinners" =>
                       /\ players' = players
                       /\ game' = calls[c].game
                       /\ game'.active /\ game'.prizePool = 0
                       /\ Len(NewRows) = Len(calls[c].top)
                       /\ result'.burned = <<calls[c].buyback>>
                /\ calls[c].op = "reset" =>
                       /\ players' = players
                       /\ game' = calls[c].game
                       /\ ~game'.active
                       /\ game'.totalDeposits = 0 /\ game'.prizePool = 0
                /\ calls[c].op = "evaluate" =>
                       /\ game' = game
                       /\ players' = IF calls[c].pc = "evalSave"
                                     THEN SaveAll(players, calls[c].rows)
                                     ELSE players ]_vars

\* the emit of a deposit threw: the deposit of 1 is counted
C32_Witness ==
    /\ result.op = "deposit" /\ result.err = EmitError
    /\ Len(players) = 1 /\ players[1].deposit = 1
    /\ game.totalDeposits = 1 /\ game.prizePool = 1

(***************************************************************************)
(* C33. Participant identities are unique per round: in every reachable    *)
(* state, also after two first deposits of one new identity were handled   *)
(* concurrently, no two participant records have the same identity.        *)
(***************************************************************************)
C33_UniqueIdentities ==
    \A i, j \in 1..Len(players) : players[i].key = players[j].key => i = j

(***************************************************************************)
(* C34. The Settled flag changes only through the guarded transitions:     *)
(* active goes from false to true only in a successful settlement and from *)
(* true to false only in a successful reset; no step of a deposit, in any  *)
(* interleaving, flips it.                                                 *)
(***************************************************************************)
C34_FlagOnlyByGuardedTransitions ==
    [][ (game.exists /\ game'.active # game.active) =>
            IF game'.active THEN Succeeded("selectWinners") ELSE Succeeded("reset") ]_vars

\* the calls that ran the burn / that completed
Burns == {c \in 1..Len(calls) : calls[c].pc \in {"settleSave", "done"}}
Settlements == {c \in 1..Len(calls) : calls[c].pc = "done"}

(***************************************************************************)
(* C35. Of the SELECT_WINNERS requests handled concurrently for one round  *)
(* at most one succeeds: the winner records are written once and the burn  *)
(* is executed once for the pool.                                          *)
(***************************************************************************)
C35_SettleOncePerCycle ==
    /\ Cardinality(Settlements) <= 1
    /\ Cardinality(Burns) <= 1
    /\ Len(winners) <= NumWinners(Len(players))

(***************************************************************************)
(* C36. A deposit that races with a settlement cannot undo it: once the    *)
(* round is Settled with prizePool 0 it stays so until a successful reset, *)
(* also when a deposit that read the round before the settlement saves it  *)
(* afterwards.                                                             *)
(***************************************************************************)
C36_SettlementStands ==
    [][ (game.active /\ game.prizePool = 0 /\ ~Succeeded("reset")) =>
            (game'.active /\ game'.prizePool = 0) ]_vars

(***************************************************************************)
(* C37. While the round is not Settled (active false), prizePool equals    *)
(* totalDeposits in every reachable state: after initialize, after every   *)
(* deposit and after reset.                                                *)
(***************************************************************************)
C37_PoolEqualsTotalWhileOpen ==
    (game.exists /\ ~game.active) => game.prizePool = game.totalDeposits

\* two identities have deposited into a round that is not Settled
C37_Witness ==
    /\ result.op = "deposit" /\ result.err = None
    /\ game.exists /\ ~game.active
    /\ Len(players) = 2
    /\ game.totalDeposits = 2 /\ game.prizePool = 2

(***************************************************************************)
(* C38. An evaluation changes nothing but trading scores: totalDeposits,   *)
(* prizePool and the Settled flag, the winners, the set of participants    *)
(* and the deposit of every participant are the same after every step of   *)
(* the call as before it, whether the call succeeds or fails.              *)
(***************************************************************************)
C38_EvaluateFrame ==
    [][ StepOf("evaluate") =>
            /\ game' = game
            /\ winners' = winners
            /\ Len(players') = Len(players)
            /\ \A i \in 1..Len(players) :
                   /\ players'[i].key = players[i].key
                   /\ players'[i].deposit = players[i].deposit ]_vars

\* a settlement can succeed from the state, in the build that panics on an arithmetic
\* overflow (wrap FALSE) or in the one that wraps (wrap TRUE)
CanSettle(wrap) ==
    IF impl = "service" THEN ~RejectsActive(game)
    ELSE ENABLED ( /\ rumble_select_winners(AllKeys, TRUE, wrap)
                   /\ result'.err = None )

\* a reset can succeed from the state
CanReset ==
    IF impl = "service" THEN ~RejectsInactive(game)
    ELSE ENABLED ( /\ rumble_reset_game
                   /\ result'.err = None )

\* the round holds a deposit: it has a participant record
HoldsDeposit == game.exists /\ players # <<>>

(***************************************************************************)
(* C39. The round is reusable: from every reachable state in which the     *)
(* round holds a deposit a settlement can succeed, or, when the round is   *)
(* Settled, a reset can; and a successful reset leaves a round with zero   *)
(* pool, no participants and no winners, so that the cycle that follows    *)
(* starts from nothing of the earlier one.  (A call of the service can     *)
(* succeed when its guard passes: its other failures are those of the      *)
(* database, the burn and the listeners.)                                  *)
(***************************************************************************)
C39_Reusable ==
    /\ HoldsDeposit =>
           IF game.active THEN CanReset
           ELSE \A wrap \in BOOLEAN : CanSettle(wrap)
    /\ (result.op = "reset" /\ result.err = None) =>
           /\ ~game.active /\ game.totalDeposits = 0 /\ game.prizePool = 0
           /\ players = <<>> /\ winners = <<>>

(***************************************************************************)
(* The gateway.  Each handler awaits the service call inside a try block,  *)
(* emits the confirmation of its operation after the await, and emits      *)
(* ERROR in the catch block; err is the outcome of the service call.       *)
(***************************************************************************)
ConfirmationOf(op) ==
    CASE op = "initialize" -> "GAME_STARTED"
      [] op = "deposit" -> "DEPOSIT_CONFIRMED"
      [] op = "evaluate" -> "TRADING_EVALUATED"
      [] op = "selectWinners" -> "WINNERS_SELECTED"
      [] op = "reset" -> "GAME_RESET"

\* try { await this.gameService.op(..); client.emit(confirmation, ..) }
TryBlock(op, err) == IF err = None THEN <<ConfirmationOf(op)>> ELSE <<>>

\* catch (error) { client.emit('ERROR', { message: error.message }) }
CatchBlock(err) == IF err # None THEN <<"ERROR">> ELSE <<>>

\* (mutant) the confirmation is emitted before the service call is awaited
HandlerReplies_ConfirmFirst(op, err) == <<ConfirmationOf(op)>> \o CatchBlock(err)

\* the messages a handler emits to the requesting client
HandlerReplies(op, err) == TryBlock(op, err) \o CatchBlock(err)

GatewayOps == {"initialize", "deposit", "evaluate", "selectWinners", "reset"}

(***************************************************************************)
(* C40. Every gateway handler (START_GAME, DEPOSIT, EVALUATE_TRADING,      *)
(* SELECT_WINNERS, RESET_GAME) sends the requesting client exactly one     *)
(* reply per request: the confirmation of the operation when the service   *)
(* call succeeded, a single ERROR otherwise; a failure never produces a    *)
(* confirmation.                                                           *)
(***************************************************************************)
C40_OneReplyPerRequest ==
    (impl = "service" /\ result.op \in GatewayOps) =>
        LET replies == HandlerReplies(result.op, result.err)
        IN /\ Len(replies) = 1
           /\ result.err = None => replies[1] = ConfirmationOf(result.op)
           /\ result.err # None => replies[1] = "ERROR"

\* a settlement failed at the burn: the reply is ERROR
C40_Witness ==
    /\ impl = "service"
    /\ result.op = "selectWinners" /\ result.err = BurnError
    /\ HandlerReplies(result.op, result.err) = <<"ERROR">>

====
